---- MODULE Spec2Model ----
(***************************************************************************)
(* A model of app.py: the lab-report interpreter.                          *)
(*                                                                         *)
(*   extract_text_from_pdf   page texts with an OCR fallback               *)
(*   analyze_lab_report      one call to the analysis service, json.loads  *)
(*   load_reports / save_reports   the store file lab_reports.json         *)
(*   upload / download       the two request handlers of the server        *)
(*                                                                         *)
(* Python objects that come out of json.loads are tagged records (JStr,    *)
(* JNum, JNull, JList, JDict); a text (the service's reply, the content of *)
(* the store file) is a sequence of tokens, so that json.dump and          *)
(* json.load are a serialiser and a parser and not the identity.  A string *)
(* that is trimmed (a page's text) is a sequence of characters.            *)
(***************************************************************************)
EXTENDS Integers, Sequences, FiniteSets, TLC

\* ------------------------------------------------------------------ bounds
\* Request handlers that may run at the same time (threads of the server).
NumProcs == 2
\* Upload requests in one behaviour.
MaxUploads == 2
\* Pages of a document given to extract_text_from_pdf.
MaxPages == 2
\* The largest index a download request asks for.
MaxIndex == 1
\* Tokens the buffer of the open store file holds before it is flushed.
BufSize == 40

Procs == 1..NumProcs

\* ------------------------------------------------------- character strings
NL == "\n"
Whitespace == {" ", NL}

RECURSIVE LStrip(_)
LStrip(s) ==
    IF s # <<>> /\ Head(s) \in Whitespace THEN LStrip(Tail(s)) ELSE s

RECURSIVE RStrip(_)
RStrip(s) ==
    IF s # <<>> /\ s[Len(s)] \in Whitespace
    THEN RStrip(SubSeq(s, 1, Len(s) - 1)) ELSE s

\* str.strip()
Strip(s) == RStrip(LStrip(s))

\* ------------------------------------------------- extract_text_from_pdf
\* A document is [ok, pages]: ok is whether fitz.open can parse the bytes; a
\* page is [native, ocr]: what page.get_text() returns and what
\* pytesseract.image_to_string returns for the page's image.
NativeTexts ==
    { <<>>, <<" ">>, <<"a">>, <<"a", " ">>, <<" ", "a">>, <<"a", NL>> }
OcrTexts == { <<>>, <<"b">>, <<"b", NL>> }
Pages == [native : NativeTexts, ocr : OcrTexts]

RECURSIVE SeqsUpTo(_, _)
SeqsUpTo(S, n) ==
    IF n = 0 THEN { <<>> }
    ELSE LET shorter == SeqsUpTo(S, n - 1)
         IN  shorter \cup { Append(q, x) : q \in shorter, x \in S }

Docs ==
    { [ok |-> TRUE, pages |-> ps] : ps \in SeqsUpTo(Pages, MaxPages) }
        \cup { [ok |-> FALSE, pages |-> <<>>] }

\* One iteration of the loop over the pages: what the page adds to text, and
\* the calls of pytesseract.image_to_string it makes.
PageStepUntrimmed(page) ==
    IF Strip(page.native) # <<>>
    THEN [add |-> page.native \o <<NL>>, ocr_calls |-> 0]
    ELSE [add |-> page.ocr \o <<NL>>, ocr_calls |-> 1]

PageStep(page) ==
    LET page_text == Strip(page.native)
    IN  IF page_text # <<>>
        THEN [add |-> page_text \o <<NL>>, ocr_calls |-> 0]
        ELSE [add |-> page.ocr \o <<NL>>, ocr_calls |-> 1]

RECURSIVE PageLoop(_, _, _)
PageLoop(pages, i, acc) ==
    IF i > Len(pages) THEN acc
    ELSE LET st == PageStep(pages[i])
         IN  PageLoop(pages, i + 1,
                      [text |-> acc.text \o st.add,
                       ocr_calls |-> Append(acc.ocr_calls, st.ocr_calls)])

extract_text_from_pdf(doc) ==
    IF ~doc.ok
    THEN [raised |-> TRUE, text |-> <<>>, ocr_calls |-> <<>>]
    ELSE LET r == PageLoop(doc.pages, 1, [text |-> <<>>, ocr_calls |-> <<>>])
         IN  [raised |-> FALSE, text |-> Strip(r.text),
              ocr_calls |-> r.ocr_calls]

\* ------------------------------------------------------------ JSON values
\* A value is tagged with its kind k; a str and a number carry their text s,
\* a list its items xs, a dict its keys ks in insertion order and the value of
\* each in xs.
JNull == [k |-> "null"]
JStr(s) == [k |-> "str", s |-> s]
JNum(s) == [k |-> "num", s |-> s]
JList(xs) == [k |-> "list", xs |-> xs]
JDict(ks, xs) == [k |-> "dict", ks |-> ks, xs |-> xs]

HasKey(d, key) == d.k = "dict" /\ \E i \in 1..Len(d.ks) : d.ks[i] = key
Get(d, key) == d.xs[CHOOSE i \in 1..Len(d.ks) : d.ks[i] = key]

\* d[key] = x
SetKey(d, key, x) ==
    IF HasKey(d, key)
    THEN JDict(d.ks, [i \in 1..Len(d.xs) |-> IF d.ks[i] = key THEN x ELSE d.xs[i]])
    ELSE JDict(Append(d.ks, key), Append(d.xs, x))

\* ------------------------------------------------------------------ texts
Tok(t, v) == [t |-> t, v |-> v]
P(c) == Tok("p", c)
\* The line break and indentation json.dump(indent=4) writes.
WS == Tok("w", " ")
\* What a write past the end of a file leaves in between.
NUL == Tok("x", "NUL")

RECURSIVE Dumps(_)
RECURSIVE DumpItems(_, _)
RECURSIVE DumpMembers(_, _)
RECURSIVE DumpItemsNoComma(_, _)
\* json.dump(v, f, indent=4): the text written for v.
Dumps(v) ==
    CASE v.k = "str" -> << Tok("s", v.s) >>
      [] v.k = "num" -> << Tok("n", v.s) >>
      [] v.k = "null" -> << Tok("null", "null") >>
      [] v.k = "list" ->
            IF v.xs = <<>> THEN << P("["), P("]") >>
            ELSE << P("[") >> \o DumpItems(v.xs, 1) \o << WS, P("]") >>
      [] v.k = "dict" ->
            IF v.ks = <<>> THEN << P("{"), P("}") >>
            ELSE << P("{") >> \o DumpMembers(v, 1) \o << WS, P("}") >>

\* The items written with no comma between them.
DumpItemsNoComma(xs, i) ==
    IF i > Len(xs) THEN <<>>
    ELSE << WS >> \o Dumps(xs[i]) \o DumpItemsNoComma(xs, i + 1)

DumpItems(xs, i) ==
    IF i > Len(xs) THEN <<>>
    ELSE << WS >> \o Dumps(xs[i])
            \o (IF i < Len(xs) THEN << P(",") >> ELSE <<>>)
            \o DumpItems(xs, i + 1)

DumpMembers(d, i) ==
    IF i > Len(d.ks) THEN <<>>
    ELSE << WS, Tok("s", d.ks[i]), P(":") >> \o Dumps(d.xs[i])
            \o (IF i < Len(d.ks) THEN << P(",") >> ELSE <<>>)
            \o DumpMembers(d, i + 1)

ParseFail == [ok |-> FALSE, val |-> JNull, next |-> 0]
ParseOk(v, n) == [ok |-> TRUE, val |-> v, next |-> n]

RECURSIVE ParseValue(_, _)
RECURSIVE ParseItems(_, _, _)
RECURSIVE ParseMembers(_, _, _)
\* The JSON decoder on the tokens ts (whitespace skipped) from position i.
ParseValue(ts, i) ==
    IF i > Len(ts) THEN ParseFail
    ELSE LET t == ts[i]
         IN  CASE t.t = "s" -> ParseOk(JStr(t.v), i + 1)
               [] t.t = "n" -> ParseOk(JNum(t.v), i + 1)
               [] t.t = "null" -> ParseOk(JNull, i + 1)
               [] t = P("[") ->
                     IF i + 1 <= Len(ts) /\ ts[i + 1] = P("]")
                     THEN ParseOk(JList(<<>>), i + 2)
                     ELSE ParseItems(ts, i + 1, <<>>)
               [] t = P("{") ->
                     IF i + 1 <= Len(ts) /\ ts[i + 1] = P("}")
                     THEN ParseOk(JDict(<<>>, <<>>), i + 2)
                     ELSE ParseMembers(ts, i + 1, JDict(<<>>, <<>>))
               [] OTHER -> ParseFail

ParseItems(ts, i, acc) ==
    LET r == ParseValue(ts, i)
    IN  IF ~r.ok \/ r.next > Len(ts) THEN ParseFail
        ELSE IF ts[r.next] = P(",")
             THEN ParseItems(ts, r.next + 1, Append(acc, r.val))
        ELSE IF ts[r.next] = P("]")
             THEN ParseOk(JList(Append(acc, r.val)), r.next + 1)
        ELSE ParseFail

ParseMembers(ts, i, acc) ==
    IF i + 1 > Len(ts) \/ ts[i].t # "s" \/ ts[i + 1] # P(":") THEN ParseFail
    ELSE LET r == ParseValue(ts, i + 2)
         IN  IF ~r.ok \/ r.next > Len(ts) THEN ParseFail
             ELSE IF ts[r.next] = P(",")
                  THEN ParseMembers(ts, r.next + 1, SetKey(acc, ts[i].v, r.val))
             ELSE IF ts[r.next] = P("}")
                  THEN ParseOk(SetKey(acc, ts[i].v, r.val), r.next + 1)
             ELSE ParseFail

IsNotWS(t) == t.t # "w"

\* json.loads(text): [ok, val]; ok is FALSE where it raises JSONDecodeError
\* (no value, a bad token, data after the value).
json_loads(text) ==
    LET ts == SelectSeq(text, IsNotWS)
        r == ParseValue(ts, 1)
    IN  IF r.ok /\ r.next = Len(ts) + 1
        THEN [ok |-> TRUE, val |-> r.val]
        ELSE [ok |-> FALSE, val |-> JNull]

\* --------------------------------------------------- Python on JSON values
\* needle in v: a key of a dict, an item of a list, a substring of a str (the
\* strings of the model are atoms: only the needle itself holds it); a number
\* and None are not iterable (TypeError).
PyIn(needle, v) ==
    CASE v.k = "dict" -> [raised |-> FALSE, res |-> HasKey(v, needle)]
      [] v.k = "list" ->
            [raised |-> FALSE,
             res |-> \E i \in 1..Len(v.xs) : v.xs[i] = JStr(needle)]
      [] v.k = "str" -> [raised |-> FALSE, res |-> v.s = needle]
      [] v.k \in {"num", "null"} -> [raised |-> TRUE, res |-> FALSE]

\* len(v) of a loaded store; no store of the model is a bare string.
PyLen(v) ==
    CASE v.k = "list" -> [raised |-> FALSE, n |-> Len(v.xs)]
      [] v.k = "dict" -> [raised |-> FALSE, n |-> Len(v.ks)]
      [] v.k \in {"num", "null"} -> [raised |-> TRUE, n |-> 0]

\* v[i] of a list: a negative i counts from the end; IndexError out of range.
PyGetItem(v, i) ==
    LET n == Len(v.xs)
        j == IF i < 0 THEN n + i + 1 ELSE i + 1
    IN  IF j >= 1 /\ j <= n THEN [raised |-> FALSE, val |-> v.xs[j]]
        ELSE [raised |-> TRUE, val |-> JNull]

\* ------------------------------------------------------ analyze_lab_report
ParseError(reply) ==
    JDict(<<"error", "raw">>, <<JStr("Failed to parse GPT JSON"), reply>>)
NoKeyError == JDict(<<"error">>, <<JStr("No API key provided")>>)

SuccessReport ==
    JDict(<<"results", "overall_status", "doctor_notes">>,
          <<JList(<<>>), JStr("Healthy"), JStr("All normal")>>)

\* What the service does with one request: it answers a text (text names the
\* reply as a Python str, toks is that text), answers with no content
\* (message.content is None), or the call fails (create raises).
Reply(text, toks) == [kind |-> "text", text |-> text, toks |-> toks]
Services ==
    { Reply("<report>", Dumps(SuccessReport)),
      Reply("not json", << Tok("x", "not"), Tok("x", "json") >>),
      Reply("42", << Tok("n", "42") >>),
      Reply("{}", << P("{"), P("}") >>),
      Reply("[]", << P("["), P("]") >>),
      Reply("\"results\"", << Tok("s", "results") >>),
      [kind |-> "none", text |-> "", toks |-> <<>>],
      [kind |-> "fail", text |-> "", toks |-> <<>>] }

\* The behaviours of the service in the runs of concurrent handlers.
RaceServices == { svc \in Services : svc.text \in {"<report>", "not json"} }

\* A second call after a reply that does not parse.
analyze_with_retry(key, text, svc) ==
    IF key = ""
    THEN [calls |-> 0, raised |-> FALSE, value |-> NoKeyError]
    ELSE IF svc.kind = "fail"
    THEN [calls |-> 1, raised |-> TRUE, value |-> JNull]
    ELSE IF svc.kind = "none"
    THEN [calls |-> 2, raised |-> FALSE, value |-> ParseError(JNull)]
    ELSE LET r == json_loads(svc.toks)
         IN  IF r.ok THEN [calls |-> 1, raised |-> FALSE, value |-> r.val]
             ELSE [calls |-> 2, raised |-> FALSE,
                   value |-> ParseError(JStr(svc.text))]

\* analyze_lab_report(text) with client.api_key = key, the service behaving as
\* svc: the outbound calls made, whether it raised, and the value returned.
\* The prompt embeds text; the reply does not depend on it here.
analyze_lab_report(key, text, svc) ==
    IF key = ""
    THEN [calls |-> 0, raised |-> FALSE, value |-> NoKeyError]
    ELSE IF svc.kind = "fail"
    THEN [calls |-> 1, raised |-> TRUE, value |-> JNull]
    ELSE IF svc.kind = "none"
    \* json.loads(None) raises TypeError inside the try
    THEN [calls |-> 1, raised |-> FALSE, value |-> ParseError(JNull)]
    ELSE LET r == json_loads(svc.toks)
         IN  IF r.ok THEN [calls |-> 1, raised |-> FALSE, value |-> r.val]
             ELSE [calls |-> 1, raised |-> FALSE,
                   value |-> ParseError(JStr(svc.text))]

\* ------------------------------------------------------------ the store file
\* The file lab_reports.json: whether it exists, and its content.
NoFile == [exists |-> FALSE, content |-> <<>>]
FileOf(text) == [exists |-> TRUE, content |-> text]

\* load_reports(): [raised, val]
load_reports(f) ==
    IF f.exists
    THEN LET r == json_loads(f.content)
         IN  [raised |-> ~r.ok, val |-> r.val]
    ELSE [raised |-> FALSE, val |-> JList(<<>>)]

\* open(DATA_FILE, "w"): the file exists and is empty.
OpenW(f) == FileOf(<<>>)

\* The content of a file after data is written at offset off.
WriteAt(content, off, data) ==
    LET end == off + Len(data)
        n == IF end > Len(content) THEN end ELSE Len(content)
    IN  [i \in 1..n |->
            IF i > off /\ i <= end THEN data[i - off]
            ELSE IF i <= Len(content) THEN content[i]
            ELSE NUL]

\* reports.append(report_record) on a list
Appended(reps, rec) == JList(Append(reps.xs, rec))

\* ------------------------------------------------------------------ records
Stamps ==
    << "2024-01-01 10:00:01", "2024-01-01 10:00:02", "2024-01-01 10:00:03",
       "2024-01-01 10:00:04", "2024-01-01 10:00:05" >>
\* datetime.now().strftime("%Y-%m-%d %H:%M:%S") at the n-th tick of the clock
Timestamp(n) == Stamps[n]

ReportRecord(ts, name, analysis) ==
    JDict(<<"timestamp", "file_name", "analysis">>,
          <<JStr(ts), JStr(name), analysis>>)

IsRecord(v) ==
    /\ HasKey(v, "timestamp") /\ HasKey(v, "file_name") /\ HasKey(v, "analysis")

\* The stored shape: an array of records.
ValidStore(v) ==
    v.k = "list" /\ \A i \in 1..Len(v.xs) : IsRecord(v.xs[i])

IsSuccessShape(a) ==
    /\ HasKey(a, "results") /\ HasKey(a, "overall_status")
    /\ HasKey(a, "doctor_notes") /\ ~HasKey(a, "error")
    /\ Get(a, "results").k = "list"

IsErrorShape(a) ==
    /\ HasKey(a, "error") /\ ~HasKey(a, "results")
    /\ Get(a, "error").k = "str"
    /\ HasKey(a, "raw") => Get(a, "raw").k \in {"str", "null"}

OldRecord == ReportRecord("2023-12-31 09:00:00", "old.pdf", SuccessReport)

Garbage == << Tok("x", "garbage") >>

InitFiles ==
    { NoFile,
      FileOf(Dumps(JList(<<>>))),
      FileOf(Dumps(JList(<<OldRecord>>))),
      FileOf(Garbage),
      FileOf(Dumps(JDict(<<>>, <<>>))),
      FileOf(Dumps(JList(<<JNum("1")>>))) }

\* The documents of the upload requests of the server model.
MainDocs ==
    { [ok |-> FALSE, pages |-> <<>>],
      [ok |-> TRUE, pages |-> <<>>],
      [ok |-> TRUE, pages |-> << [native |-> <<"a", NL>>, ocr |-> <<>>] >>] }

FileNames == { "report.pdf" }

\* ---------------------------------------------------------------- responses
NoResp ==
    [op |-> "none", status |-> 0, exc |-> "", at |-> "", body |-> JNull,
     index |-> 0, loaded |-> JNull, corrupt |-> FALSE, saved |-> FALSE]

Raised(op, exc, at) ==
    [NoResp EXCEPT !.op = op, !.status = 500, !.exc = exc, !.at = at]

\* Lines 116-119: the response of an upload once the store is saved.
UploadResponse(analysis) ==
    LET c == PyIn("results", analysis)
    IN  IF c.raised THEN Raised("upload", "TypeError", "respond")
        ELSE IF c.res
        THEN [NoResp EXCEPT !.op = "upload", !.status = 200, !.body = analysis]
        ELSE [NoResp EXCEPT !.op = "upload", !.status = 200,
                 !.body = JDict(<<"error", "raw">>,
                                <<JStr("Analysis failed"), analysis>>)]

\* Lines 135-147: whether the document is built from the record.
Renders(report) ==
    /\ HasKey(report, "timestamp") /\ HasKey(report, "analysis")
    /\ LET analysis == Get(report, "analysis")
           c == PyIn("results", analysis)
       IN  /\ ~c.raised
           /\ c.res =>
                /\ analysis.k = "dict"
                /\ LET results == Get(analysis, "results")
                   IN  CASE results.k = "list" ->
                              \A i \in 1..Len(results.xs) :
                                 \A key \in {"test", "value", "range",
                                              "status", "analysis"} :
                                    HasKey(results.xs[i], key)
                         [] results.k = "dict" -> results.ks = <<>>
                         [] results.k = "str" -> results.s = ""
                         [] results.k \in {"num", "null"} -> FALSE

\* index >= len(reports) mistaken for index > len(reports)
OutOfRangeOffByOne(index, n) == index < 0 \/ index > n

\* Line 124
OutOfRange(index, n) == index < 0 \/ index >= n

\* download(index) on the store file f
download(index, f) ==
    LET ld == load_reports(f)
        base == [NoResp EXCEPT !.op = "download", !.index = index,
                               !.loaded = ld.val,
                               !.corrupt = f.exists /\ (ld.raised \/ ~ValidStore(ld.val))]
    IN  IF ld.raised
        THEN [base EXCEPT !.status = 500, !.exc = "JSONDecodeError", !.at = "load"]
        ELSE IF PyLen(ld.val).raised
        THEN [base EXCEPT !.status = 500, !.exc = "TypeError", !.at = "len"]
        ELSE IF OutOfRange(index, PyLen(ld.val).n)
        THEN [base EXCEPT !.status = 400, !.at = "index"]
        ELSE IF ld.val.k = "dict"
        THEN [base EXCEPT !.status = 500, !.exc = "KeyError", !.at = "index"]
        ELSE IF PyGetItem(ld.val, index).raised
        THEN [base EXCEPT !.status = 500, !.exc = "IndexError", !.at = "index"]
        ELSE LET report == PyGetItem(ld.val, index).val
             IN  IF Renders(report)
                 THEN [base EXCEPT !.status = 200, !.body = report]
                 ELSE [base EXCEPT !.status = 500, !.exc = "TypeError",
                                   !.at = "render", !.body = report]

\* ------------------------------------------------------------------- state
VARIABLES
    api_key,      \* client.api_key
    file,         \* lab_reports.json
    now,          \* ticks of the clock: one at each upload request
    pc,           \* where each request handler is
    an,           \* analyze_lab_report in the handler's upload: calls, raised
    record,       \* report_record of the handler's upload, with what it returned
    reports,      \* reports of the handler's upload, the record appended
    fh,           \* the handler's open file: the text to write, the offset
    resp,         \* the handler's response, until it is returned
    init_file,    \* the store file before the first request
    n_extracted,  \* upload requests whose extraction succeeded
    ex_doc,       \* the document extract_text_from_pdf is applied to
    ex_out        \* and what it returns

server_vars ==
    << api_key, file, now, pc, an, record, reports, fh, resp, init_file,
       n_extracted >>
vars == << server_vars, ex_doc, ex_out >>

Closed == [data |-> <<>>, pos |-> 0]
NoAnalysis == [invoked |-> FALSE, calls |-> 0, raised |-> FALSE]

ExIdle ==
    /\ ex_doc = [ok |-> TRUE, pages |-> <<>>]
    /\ ex_out = [done |-> FALSE, raised |-> FALSE, text |-> <<>>, ocr_calls |-> <<>>]

Init ==
    /\ api_key \in {"", "sk-or-key"}
    /\ file \in InitFiles
    /\ init_file = file
    /\ now = 0
    /\ pc = [p \in Procs |-> "idle"]
    /\ an = [p \in Procs |-> NoAnalysis]
    /\ record = [p \in Procs |-> JNull]
    /\ reports = [p \in Procs |-> JNull]
    /\ fh = [p \in Procs |-> Closed]
    /\ resp = [p \in Procs |-> NoResp]
    /\ n_extracted = 0
    /\ ExIdle

Respond(p, r) ==
    /\ pc' = [pc EXCEPT ![p] = "responded"]
    /\ resp' = [resp EXCEPT ![p] = r]

\* upload(), lines 97-101: a request with no file part, or with an empty
\* file name.
UploadRejected(p) ==
    /\ pc[p] = "idle"
    /\ now < MaxUploads
    /\ now' = now + 1
    /\ \E why \in {"No file uploaded", "No selected file"} :
          Respond(p, [NoResp EXCEPT !.op = "upload", !.status = 400,
                                    !.body = JStr(why)])
    /\ UNCHANGED << api_key, file, an, record, reports, fh, init_file,
                    n_extracted, ex_doc, ex_out >>

\* upload(), lines 103-110: extraction, analysis, the record.  The clock has
\* moved on by a second since the request before, so that the records of two
\* uploads differ in their timestamps.
UploadAnalyze(p, services) ==
    /\ pc[p] = "idle"
    /\ now < MaxUploads
    /\ now' = now + 1
    /\ \E doc \in MainDocs, svc \in services, name \in FileNames :
          LET ex == extract_text_from_pdf(doc)
              a == analyze_lab_report(api_key, ex.text, svc)
          IN  IF ex.raised
              THEN /\ Respond(p, Raised("upload", "FileDataError", "extract"))
                   /\ UNCHANGED << an, record, n_extracted >>
              ELSE /\ n_extracted' = n_extracted + 1
                   /\ an' = [an EXCEPT ![p] = [invoked |-> TRUE, calls |-> a.calls,
                                                raised |-> a.raised]]
                   /\ IF a.raised
                      THEN /\ Respond(p, Raised("upload", "APIError", "analyze"))
                           /\ UNCHANGED record
                      ELSE /\ record' = [record EXCEPT ![p] =
                                  ReportRecord(Timestamp(now'), name, a.value)]
                           /\ pc' = [pc EXCEPT ![p] = "load"]
                           /\ UNCHANGED resp
    /\ UNCHANGED << api_key, file, reports, fh, init_file, ex_doc, ex_out >>

\* upload(), lines 112-113: reports = load_reports(); reports.append(record)
UploadLoad(p) ==
    /\ pc[p] = "load"
    /\ LET ld == load_reports(file)
       IN  IF ld.raised
           THEN /\ Respond(p, [Raised("upload", "JSONDecodeError", "load")
                                 EXCEPT !.corrupt = TRUE])
                /\ UNCHANGED reports
           ELSE IF ld.val.k # "list"
           THEN /\ Respond(p, [Raised("upload", "AttributeError", "append")
                                 EXCEPT !.corrupt = TRUE])
                /\ UNCHANGED reports
           ELSE /\ reports' = [reports EXCEPT ![p] = Appended(ld.val, record[p])]
                /\ pc' = [pc EXCEPT ![p] = "save"]
                /\ resp' = [resp EXCEPT ![p] =
                              [NoResp EXCEPT !.loaded = ld.val, !.corrupt =
                                  file.exists /\ ~ValidStore(ld.val)]]
    /\ UNCHANGED << api_key, file, now, an, record, fh, init_file,
                    n_extracted, ex_doc, ex_out >>

\* The store as of the store file now, with the handler's record.
SaveArgReloaded(p) ==
    LET ld == load_reports(file)
    IN  IF ~ld.raised /\ ld.val.k = "list"
        THEN Appended(ld.val, record[p]) ELSE reports[p]

\* Line 114: what upload() passes to save_reports.
SaveArg(p) == reports[p]

\* save_reports(reports), line 87: open(DATA_FILE, "w")
SaveOpen(p) ==
    /\ pc[p] = "save"
    /\ reports' = [reports EXCEPT ![p] = SaveArg(p)]
    /\ file' = OpenW(file)
    /\ fh' = [fh EXCEPT ![p] = [data |-> Dumps(SaveArg(p)), pos |-> 0]]
    /\ pc' = [pc EXCEPT ![p] = "write"]
    /\ UNCHANGED << api_key, now, an, record, resp, init_file, n_extracted,
                    ex_doc, ex_out >>

\* save_reports(reports), line 88: json.dump fills the buffer of fh, which is
\* written to the file when it is full.
SaveFlush(p) ==
    /\ pc[p] = "write"
    /\ Len(fh[p].data) - fh[p].pos > BufSize
    /\ file' = FileOf(WriteAt(file.content, fh[p].pos,
                              SubSeq(fh[p].data, fh[p].pos + 1, fh[p].pos + BufSize)))
    /\ fh' = [fh EXCEPT ![p].pos = fh[p].pos + BufSize]
    /\ UNCHANGED << api_key, now, pc, an, record, reports, resp, init_file,
                    n_extracted, ex_doc, ex_out >>

\* save_reports(reports): the end of the with block writes what is left in
\* the buffer and closes fh; then upload(), lines 116-119.
SaveClose(p) ==
    /\ pc[p] = "write"
    /\ Len(fh[p].data) - fh[p].pos <= BufSize
    /\ file' = FileOf(WriteAt(file.content, fh[p].pos,
                              SubSeq(fh[p].data, fh[p].pos + 1, Len(fh[p].data))))
    /\ Respond(p, [UploadResponse(Get(record[p], "analysis"))
                     EXCEPT !.loaded = resp[p].loaded,
                            !.corrupt = resp[p].corrupt, !.saved = TRUE])
    /\ UNCHANGED << api_key, now, an, record, reports, fh, init_file,
                    n_extracted, ex_doc, ex_out >>

\* download(index)
Download(p) ==
    /\ pc[p] = "idle"
    /\ \E index \in -1..MaxIndex : Respond(p, download(index, file))
    /\ UNCHANGED << api_key, file, now, an, record, reports, fh, init_file,
                    n_extracted, ex_doc, ex_out >>

\* The response is sent; the handler's locals are gone.
Return(p) ==
    /\ pc[p] = "responded"
    /\ pc' = [pc EXCEPT ![p] = "idle"]
    /\ an' = [an EXCEPT ![p] = NoAnalysis]
    /\ record' = [record EXCEPT ![p] = JNull]
    /\ reports' = [reports EXCEPT ![p] = JNull]
    /\ fh' = [fh EXCEPT ![p] = Closed]
    /\ resp' = [resp EXCEPT ![p] = NoResp]
    /\ UNCHANGED << api_key, file, now, init_file, n_extracted, ex_doc, ex_out >>

Handler(p, services) ==
    \/ UploadRejected(p)
    \/ UploadAnalyze(p, services)
    \/ UploadLoad(p)
    \/ SaveOpen(p)
    \/ SaveFlush(p)
    \/ SaveClose(p)
    \/ Download(p)
    \/ Return(p)

\* The server with its request handlers running at the same time.
Next == \E p \in Procs : Handler(p, RaceServices)
Spec == Init /\ [][Next]_vars

\* Uploads alone, running at the same time, one in each handler: there are as
\* many handlers as uploads, and every schedule of the uploads is one of these.
RaceNext ==
    \E p \in Procs :
        \/ UploadAnalyze(p, RaceServices)
        \/ UploadLoad(p)
        \/ SaveOpen(p)
        \/ SaveFlush(p)
        \/ SaveClose(p)
RaceSpec == Init /\ [][RaceNext]_vars

\* The server handling one request at a time.
SeqNext == Handler(1, Services)
SeqSpec == Init /\ [][SeqNext]_vars

\* extract_text_from_pdf applied to a document.
ExInit ==
    /\ ex_doc \in Docs
    /\ ex_out = [done |-> FALSE, raised |-> FALSE, text |-> <<>>, ocr_calls |-> <<>>]
    /\ api_key = ""
    /\ file = NoFile
    /\ init_file = NoFile
    /\ now = 0
    /\ pc = [p \in Procs |-> "idle"]
    /\ an = [p \in Procs |-> NoAnalysis]
    /\ record = [p \in Procs |-> JNull]
    /\ reports = [p \in Procs |-> JNull]
    /\ fh = [p \in Procs |-> Closed]
    /\ resp = [p \in Procs |-> NoResp]
    /\ n_extracted = 0

Extract ==
    /\ ~ex_out.done
    /\ ex_out' = [done |-> TRUE] @@ extract_text_from_pdf(ex_doc)
    /\ UNCHANGED << server_vars, ex_doc >>

ExtractSpec == ExInit /\ [][Extract]_vars

\* ----------------------------------------------------------------- claims
InitLoad == load_reports(init_file)
\* The store file before the first request holds an array of records (or
\* there is no store file).
InitLoadable == ~InitLoad.raised /\ ValidStore(InitLoad.val)

IsPrefix(s, t) == Len(s) <= Len(t) /\ \A i \in 1..Len(s) : t[i] = s[i]

StampIndex(rec) ==
    CHOOSE i \in 1..Len(Stamps) : Stamps[i] = Get(rec, "timestamp").s

\* What analyze_lab_report returned to the upload of handler p.
Returned(p) == Get(record[p], "analysis")

Saved(p) == pc[p] = "responded" /\ resp[p].op = "upload" /\ resp[p].saved
Downloaded(p) == pc[p] = "responded" /\ resp[p].op = "download"

\* C1: with requests handled one at a time on a store that loads, once the
\* handler has its response the store file holds the initial records followed
\* by one record for each upload whose extraction succeeded, in the order of
\* their arrival.
C1_OneRecordPerUpload ==
    (InitLoadable /\ pc[1] \in {"idle", "responded"}) =>
        LET ld == load_reports(file)
            n == Len(InitLoad.val.xs)
        IN  /\ ~ld.raised
            /\ ld.val.k = "list"
            /\ Len(ld.val.xs) = n + n_extracted
            /\ IsPrefix(InitLoad.val.xs, ld.val.xs)
            /\ \A i, j \in (n + 1)..Len(ld.val.xs) :
                  i < j => StampIndex(ld.val.xs[i]) < StampIndex(ld.val.xs[j])

\* C2: an invocation of analyze_lab_report never ends by raising into
\* upload(), whatever the service does.
C2_AnalyzeNeverRaises ==
    \A p \in Procs :
        /\ an[p].invoked => ~an[p].raised
        /\ resp[p].at # "analyze"

\* C3: what analyze_lab_report returns is the parsed reply only when it has the
\* success shape, and otherwise an error report: "No API key provided", or
\* "Failed to parse GPT JSON" with the raw reply; a stored analysis is one of
\* the two shapes.
C3_ParsedOnlyIfSuccessShape ==
    \A p \in Procs :
        (an[p].invoked /\ ~an[p].raised) =>
            /\ \/ IsSuccessShape(Returned(p))
               \/ Returned(p) = NoKeyError
               \/ /\ IsErrorShape(Returned(p))
                  /\ Get(Returned(p), "error") = JStr("Failed to parse GPT JSON")
                  /\ HasKey(Returned(p), "raw")
            /\ IsSuccessShape(Returned(p)) # IsErrorShape(Returned(p))

\* C4: an invocation of analyze_lab_report makes exactly one outbound call
\* when a credential is configured, and none when there is no credential, where
\* it returns {error: "No API key provided"}.
C4_OutboundCalls ==
    \A p \in Procs :
        an[p].invoked =>
            /\ api_key # "" => an[p].calls = 1
            /\ api_key = "" =>
                  /\ an[p].calls = 0
                  /\ ~an[p].raised
                  /\ Returned(p) = NoKeyError

\* C4's case: a credential is configured, the reply did not parse, and one call
\* was made.
C4_Witness ==
    \E p \in Procs :
        /\ an[p].invoked /\ api_key # "" /\ ~an[p].raised
        /\ HasKey(Returned(p), "error")
        /\ Get(Returned(p), "error") = JStr("Failed to parse GPT JSON")
        /\ an[p].calls = 1

\* C5: once an upload has saved the store s it loaded with its record r
\* appended, load_reports() returns s followed by r: r at index len(s), every
\* record of s at its index; with no store file, load_reports() returns [].
C5_RoundTrip ==
    /\ ~file.exists => load_reports(file) = [raised |-> FALSE, val |-> JList(<<>>)]
    /\ Saved(1) =>
          LET ld == load_reports(file)
              s == resp[1].loaded.xs
          IN  /\ ~ld.raised
              /\ ld.val.k = "list"
              /\ Len(ld.val.xs) = Len(s) + 1
              /\ ld.val.xs[Len(s) + 1] = record[1]
              /\ \A i \in 1..Len(s) : ld.val.xs[i] = s[i]

\* C5's case: a store of two records, the second with a null inside, saved
\* with a third record and loaded again.
C5_Witness ==
    /\ Saved(1)
    /\ Len(resp[1].loaded.xs) = 2
    /\ HasKey(Get(resp[1].loaded.xs[2], "analysis"), "raw")
    /\ Get(Get(resp[1].loaded.xs[2], "analysis"), "raw") = JNull
    /\ load_reports(file).val = Appended(resp[1].loaded, record[1])

\* C6: an operation that loaded a store file whose content is not an array of
\* records fails at the load: it answers neither 200 nor 400, and it does not
\* go on to save.
C6_CorruptStoreFails ==
    \A p \in Procs :
        resp[p].corrupt =>
            /\ pc[p] = "responded"
            /\ resp[p].status = 500
            /\ resp[p].at \in {"load", "append", "len"}
            /\ ~resp[p].saved
            /\ file = init_file

\* C7: with a single upload in the behaviour, a download that loads the store
\* at any point sees the complete store of before the save or the complete
\* store of after it.
C7_AtomicSave ==
    \A p \in Procs :
        (Downloaded(p) /\ InitLoadable /\ now <= 1) =>
            /\ resp[p].at # "load"
            /\ ValidStore(resp[p].loaded)
            /\ IsPrefix(InitLoad.val.xs, resp[p].loaded.xs)
            /\ Len(resp[p].loaded.xs) <= Len(InitLoad.val.xs) + 1

\* C8: a download of a store that loads as a list answers 400 exactly when
\* index < 0 or index >= len(reports), and otherwise hands on reports[index];
\* index 0 of a store that is not empty gives the first record; the store file
\* is left as it is.
C8_RenderableView ==
    [][\A p \in Procs :
          LET ld == load_reports(file)
              r == resp'[p]
          IN  (pc[p] = "idle" /\ pc'[p] = "responded" /\ r.op = "download"
                 /\ ~ld.raised /\ ld.val.k = "list") =>
                /\ file' = file
                /\ r.status = 400 <=> (r.index < 0 \/ r.index >= Len(ld.val.xs))
                /\ r.status # 400 =>
                      /\ r.status = 200 \/ r.at = "render"
                      /\ r.body = ld.val.xs[r.index + 1]]_vars

\* C8's case: index 0 of a store of two records gave the record appended first.
C8_Witness ==
    \E p \in Procs :
        /\ Downloaded(p) /\ resp[p].index = 0 /\ resp[p].status = 200
        /\ resp[p].loaded.k = "list" /\ Len(resp[p].loaded.xs) = 2
        /\ resp[p].body = resp[p].loaded.xs[1]
        /\ load_reports(file).val = resp[p].loaded

RECURSIVE Join(_)
\* The texts of ts with one newline between two of them.
Join(ts) ==
    IF ts = <<>> THEN <<>>
    ELSE IF Len(ts) = 1 THEN ts[1]
    ELSE ts[1] \o <<NL>> \o Join(Tail(ts))

HasNative(page) == Strip(page.native) # <<>>

\* The extraction is done, and its text is the texts joined and trimmed.
ExtractedAs(texts) ==
    (ex_out.done /\ ex_doc.ok) =>
        /\ ~ex_out.raised
        /\ ex_out.text = Strip(Join(texts))
        /\ Len(ex_out.ocr_calls) = Len(ex_doc.pages)
        /\ \A i \in 1..Len(ex_doc.pages) :
              ex_out.ocr_calls[i] = IF HasNative(ex_doc.pages[i]) THEN 0 ELSE 1
        /\ ex_doc.pages = <<>> => ex_out.text = <<>>

NativeOrOcr(page) == IF HasNative(page) THEN page.native ELSE page.ocr
TrimmedNativeOrOcr(page) ==
    IF HasNative(page) THEN Strip(page.native) ELSE page.ocr

\* C9 as stated: the text is the pages' texts joined by single newlines and
\* trimmed, a page giving its native text when that is not empty after
\* trimming and else the output of recognition, which is called once for such
\* a page and never for a page with native text; no page gives "".
C9_NativeTextAsIs ==
    ExtractedAs([i \in 1..Len(ex_doc.pages) |-> NativeOrOcr(ex_doc.pages[i])])

\* C9 amended: as above, a page with native text giving its native text
\* trimmed.
C9_NativeTextTrimmed ==
    ExtractedAs([i \in 1..Len(ex_doc.pages) |-> TrimmedNativeOrOcr(ex_doc.pages[i])])

\* C9's case: a first page whose native text ends in a newline, and a second
\* page with no native text, recognised once.
C9_Witness ==
    /\ ex_out.done /\ ex_doc.ok /\ Len(ex_doc.pages) = 2
    /\ ex_doc.pages[1].native = <<"a", NL>>
    /\ ~HasNative(ex_doc.pages[2]) /\ ex_doc.pages[2].ocr = <<"b", NL>>
    /\ ex_out.ocr_calls = <<0, 1>>
    /\ ex_out.text = <<"a", NL, "b">>

Holds(store, rec) ==
    store.k = "list" /\ \E i \in 1..Len(store.xs) : store.xs[i] = rec

\* C10: when two uploads that loaded the same store have both saved, the store
\* file does not hold the records of both.
C10_NoMergeOfConcurrentUploads ==
    \A p, q \in Procs :
        (p # q /\ Saved(p) /\ Saved(q) /\ resp[p].loaded = resp[q].loaded) =>
            LET ld == load_reports(file)
            IN  ~(~ld.raised /\ Holds(ld.val, record[p]) /\ Holds(ld.val, record[q]))

\* C10's case, the lost update: two uploads loaded the same store, both have
\* saved, and the store file is that store with the record of one of them only.
C10_LostUpdate ==
    \E p, q \in Procs :
        /\ p # q /\ Saved(p) /\ Saved(q)
        /\ resp[p].loaded = resp[q].loaded
        /\ record[p] # record[q]
        /\ load_reports(file) =
              [raised |-> FALSE, val |-> Appended(resp[q].loaded, record[q])]
        /\ ~Holds(load_reports(file).val, record[p])
====
